---- MODULE Spec2Model ----
(***************************************************************************)
(* A model of xmipy's XmiWrapper (src/xmipy/xmiwrapper.py): the lifecycle  *)
(* state machine, the invoker _execute_function with its diagnostic        *)
(* retrieval, the working-directory scope and the value marshaler          *)
(* (get_value, get_value_ptr, set_value).                                  *)
(*                                                                         *)
(* One action is one whole call of a public method.  The native kernel is  *)
(* the environment: every native entry point returns a status the model    *)
(* chooses, and the library may lack any of the diagnostic symbols.        *)
(* What a call did (the native calls it made, the exception it raised,     *)
(* the message, what it returned) is recorded in the variable `last`.      *)
(***************************************************************************)
EXTENDS Integers, Sequences, FiniteSets, Bags, TLC

VARIABLES
    state,              \* self._state
    alive,              \* the wrapper object has not been torn down yet
    working_directory,  \* self.working_directory
    cwd,                \* the process's current directory (os.getcwd())
    missing,            \* the diagnostic symbols self.lib does not export
    catalog,            \* the kernel variable's native type string, rank, shape
    mem,                \* the kernel's own memory of the variable (flat)
    bufs,               \* the host's numpy buffers, by identity
    returned,           \* handle of the array the caller holds from get_value
    ptr,                \* handle of the array the caller holds from get_value_ptr
    snapshot,           \* history: {contents of `returned` as get_value or the caller left it}
    lastSet,            \* history: {the source of the last set_value, until the kernel is written again}
    lastOk,             \* history: the last lifecycle call whose native call returned 0
    timing,             \* self.timing
    timer,              \* self.timer: the ledger of the entry points' timers
    last                \* observation of the last public call

vars == <<state, alive, working_directory, cwd, missing, catalog, mem, bufs,
          returned, ptr, snapshot, lastSet, lastOk, timing, timer, last>>

----------------------------------------------------------------------------
(* Bounds of the model *)

\* native statuses range over 0..MaxStatus (every nonzero one is a failure)
MaxStatus == 1
\* a rank >= 1 variable has 1..MaxLen elements
MaxLen == 2
\* the timer ledger holds up to MaxSamples samples
MaxSamples == 3
\* the shapes get_value_ptr is explored on have rank 1..MaxRank
MaxRank == 3

----------------------------------------------------------------------------
(* Program constants *)

SUCCESS == 0
FAILURE == 1

UNINITIALIZED == "UNINITIALIZED"
INITIALIZED == "INITIALIZED"

NativeStatus == 0..MaxStatus

\* directories of the process: where the caller is, and the simulation's
Dirs == {"launch", "sim"}

\* the symbols the failure path of _execute_function looks up
DiagSymbols == {"BMI_LENERRMESSAGE", "get_last_bmi_error",
                "BMI_LENCOMPONENTNAME", "get_component_name"}

\* what the kernel writes into the diagnostic buffers
ComponentName == "MODFLOW 6"
ErrorText == "native error text"

\* the statuses the two raw diagnostic calls return
RawStatus == [err : NativeStatus, name : NativeStatus]

None == [kind |-> "none"]

----------------------------------------------------------------------------
(* Library Handle *)

\* c_int.in_dll(self.lib, name): ValueError when the data symbol is absent
get_constant_int(name) ==
    IF name \in missing THEN "ValueError" ELSE "none"

\* attribute access self.lib.<name>: AttributeError when the function is absent
lib_function(name) ==
    IF name \in missing THEN "AttributeError" ELSE "none"

----------------------------------------------------------------------------
(* Invoker *)

Call(fn, status, raw) == [fn |-> fn, status |-> status, raw |-> raw]

Outcome(exc, msg, calls, logged) ==
    [exc |-> exc, msg |-> msg, calls |-> calls, logged |-> logged]

\* the text a raw diagnostic call leaves in its zero-filled buffer
BufferText(status, text) == IF status = SUCCESS THEN text ELSE ""

\* one step of an invocation, in the order it happens: a timer started or
\* stopped under `fn`, or the native function `fn` called
Ev(kind, fn) == [kind |-> kind, fn |-> fn]

\* `if self.timing: self.timer.start(function.__name__)`
timer_start(fn) == IF timing THEN <<Ev("start", fn)>> ELSE <<>>

\* `if self.timing: self.timer.stop(function.__name__)`
timer_stop(fn) == IF timing THEN <<Ev("stop", fn)>> ELSE <<>>

\* the native calls of the try block, in order
Trace(calls) ==
    [i \in DOMAIN calls |->
        Ev(IF calls[i].raw THEN "raw" ELSE "call", calls[i].fn)]

WithEvents(o, events) ==
    [exc |-> o.exc, msg |-> o.msg, calls |-> o.calls, logged |-> o.logged,
     events |-> events]

\* faulty variant: the timer is stopped after the try block, not in `finally`
timed_no_finally(fn, body) ==
    WithEvents(body, timer_start(fn) \o Trace(body.calls)
                     \o (IF body.exc = "none" THEN timer_stop(fn) ELSE <<>>))

\* the timer started before the try block and stopped in its `finally`
timed(fn, body) ==
    WithEvents(body, timer_start(fn) \o Trace(body.calls) \o timer_stop(fn))

\* faulty variant: the two diagnostic entry points called through the invoker
execute_function_nested(fn, result, detail, raw) ==
    LET main == <<Call(fn, result, FALSE)>>
        diag == <<Call("get_last_bmi_error", raw.err, FALSE),
                  Call("get_component_name", raw.name, FALSE)>>
    IN  timed(fn,
        IF result = SUCCESS
        THEN Outcome("none", <<>>, main, FALSE)
        ELSE Outcome("XMIError", <<"BMI exception in ", fn>>, main \o diag, FALSE))

\* _execute_function(function, *args, **kwargs) where the native function
\* returns `result`; `detail` is kwargs.get("detail") or "" when absent.
execute_function(fn, result, detail, raw) ==
    LET main == <<Call(fn, result, FALSE)>>
        msg0 == <<"BMI exception in ", fn>>
        c1   == Append(main, Call("get_last_bmi_error", raw.err, TRUE))
        c2   == Append(c1, Call("get_component_name", raw.name, TRUE))
        full == msg0 \o <<": Message from ", BufferText(raw.name, ComponentName),
                          BufferText(raw.err, ErrorText)>>
                     \o (IF detail # "" THEN <<", details : ", detail>> ELSE <<>>)
    IN
    timed(fn,
    IF result = SUCCESS
    THEN Outcome("none", <<>>, main, FALSE)
    ELSE IF get_constant_int("BMI_LENERRMESSAGE") # "none"
    THEN Outcome("ValueError", <<"undefined symbol", "BMI_LENERRMESSAGE">>, main, FALSE)
    ELSE IF lib_function("get_last_bmi_error") # "none"
    THEN Outcome("XMIError", msg0, main, TRUE)
    ELSE IF get_constant_int("BMI_LENCOMPONENTNAME") # "none"
    THEN Outcome("ValueError", <<"undefined symbol", "BMI_LENCOMPONENTNAME">>, c1, FALSE)
    ELSE IF lib_function("get_component_name") # "none"
    THEN Outcome("XMIError", msg0, c1, TRUE)
    ELSE Outcome("XMIError", full, c2, FALSE))

----------------------------------------------------------------------------
(* Timer Ledger: xmipy.timers.timer.Timer *)

\* a new Timer: no timer running, no sample taken
NewTimer == [running |-> {}, starts |-> EmptyBag, stops |-> EmptyBag]

\* Timer.start(fn_name): the timer of that name runs
Timer_start(t, fn) ==
    [t EXCEPT !.running = @ \cup {fn}, !.starts = @ (+) SetToBag({fn})]

\* Timer.stop(fn_name): the timer of that name stops and its elapsed time is
\* one more sample under that name
Timer_stop(t, fn) ==
    [t EXCEPT !.running = @ \ {fn}, !.stops = @ (+) SetToBag({fn})]

\* the ledger after the timer events of a call, in order
RECURSIVE Ledger(_, _)
Ledger(t, events) ==
    IF events = <<>> THEN t
    ELSE LET e == Head(events)
         IN  Ledger(IF e.kind = "start" THEN Timer_start(t, e.fn)
                    ELSE IF e.kind = "stop" THEN Timer_stop(t, e.fn)
                    ELSE t,
                    Tail(events))

\* the ledger has room for the samples of a call
Room(t) == BagCardinality(t.starts) <= MaxSamples

----------------------------------------------------------------------------
(* Working-Directory Scope: xmipy.utils.cd *)

\* entering `with cd(path)`: the process moves to path
cd_enter(path) == path

\* leaving `with cd(path)` on any exit path: the process moves back to prev
cd_exit(prev) == prev

\* each native call of an outcome, stamped with the directory it ran in
InDir(calls, dir) ==
    [i \in DOMAIN calls |->
        [fn |-> calls[i].fn, status |-> calls[i].status, raw |-> calls[i].raw,
         cwd |-> dir]]

\* what a public call is observed to have done
Observe(name, o, dir) ==
    [op |-> name, exc |-> o.exc, msg |-> o.msg, logged |-> o.logged,
     calls |-> InDir(o.calls, dir), entryCwd |-> cwd, entryState |-> state,
     unraisable |-> "none", dest |-> None, memChanged |-> FALSE,
     bufsChanged |-> FALSE, events |-> o.events]

\* a call rejected before it does anything
Rejected(name, exc, text) ==
    [op |-> name, exc |-> exc, msg |-> <<text>>, logged |-> FALSE,
     calls |-> <<>>, entryCwd |-> cwd, entryState |-> state,
     unraisable |-> "none", dest |-> None, memChanged |-> FALSE,
     bufsChanged |-> FALSE, events |-> <<>>]

----------------------------------------------------------------------------
(* Lifecycle State Machine and the path-sensitive operations *)

\* `with cd(self.working_directory): self._execute_function(self.lib.<fn>, ...)`
\* as the body of method `name`; `next` is self._state after a normal return.
in_cd(name, fn, next, status, raw) ==
    LET prev == cwd
        dir  == cd_enter(working_directory)
        o    == execute_function(fn, status, "", raw)
    IN  [obs   |-> Observe(name, o, dir),
         cwd   |-> cd_exit(prev),
         state |-> IF o.exc = "none" THEN next ELSE state]

\* a method that raises before it does anything
reject(name, exc, text) ==
    [obs |-> Rejected(name, exc, text), cwd |-> cwd, state |-> state]

\* faulty variant: initialize without the lifecycle check
initialize_unchecked(status, raw) ==
    in_cd("initialize", "initialize", INITIALIZED, status, raw)

initialize_body(status, raw) ==
    IF state = UNINITIALIZED
    THEN in_cd("initialize", "initialize", INITIALIZED, status, raw)
    ELSE reject("initialize", "InputError", "The library is already initialized")

initialize_mpi_body(status, raw) ==
    IF state = UNINITIALIZED
    THEN in_cd("initialize_mpi", "initialize_mpi", INITIALIZED, status, raw)
    ELSE reject("initialize_mpi", "InputError", "The library is already initialized")

\* faulty variant: finalize that sets self._state before the native call returns
finalize_state_first(status, raw) ==
    IF state = INITIALIZED
    THEN [in_cd("finalize", "finalize", UNINITIALIZED, status, raw)
            EXCEPT !.state = UNINITIALIZED]
    ELSE reject("finalize", "InputError", "The library is not initialized yet")

finalize_body(status, raw) ==
    IF state = INITIALIZED
    THEN in_cd("finalize", "finalize", UNINITIALIZED, status, raw)
    ELSE reject("finalize", "InputError", "The library is not initialized yet")

\* faulty variant: a stepping method that calls the kernel outside `with cd(...)`
step_outside_cd(name, status, raw) ==
    [obs   |-> Observe(name, execute_function(name, status, "", raw), cwd),
     cwd   |-> cwd,
     state |-> state]

\* a stepping or solve method: no lifecycle check, the kernel is authoritative
step_body(name, status, raw) == in_cd(name, name, state, status, raw)

\* faulty variant: __del__ that finalizes without looking at self._state
del_unchecked(status, raw) ==
    LET r == IF state = INITIALIZED
             THEN in_cd("finalize", "finalize", UNINITIALIZED, status, raw)
             ELSE reject("finalize", "InputError", "The library is not initialized yet")
    IN  [r EXCEPT !.obs = [r.obs EXCEPT !.op = "__del__", !.exc = "none",
                                        !.unraisable = r.obs.exc]]

\* __del__: finalize if still initialized.  An exception that leaves __del__
\* is not raised to any caller: the interpreter hands it to
\* sys.unraisablehook, which reports it on stderr.
del_body(status, raw) ==
    IF state = INITIALIZED
    THEN LET r == finalize_body(status, raw)
         IN  [r EXCEPT !.obs = [r.obs EXCEPT !.op = "__del__", !.exc = "none",
                                             !.unraisable = r.obs.exc]]
    ELSE [obs |-> [Rejected("__del__", "none", "") EXCEPT !.msg = <<>>],
          cwd |-> cwd, state |-> state]

\* the lifecycle entry point an observed call completed with status 0, if any
CompletedLifecycle(obs) ==
    {obs.calls[i].fn : i \in {j \in DOMAIN obs.calls :
        /\ ~obs.calls[j].raw
        /\ obs.calls[j].status = SUCCESS
        /\ obs.calls[j].fn \in {"initialize", "initialize_mpi", "finalize"}}}

\* The wrapper never computes on an element, it only moves it: two element
\* values are what it takes to tell a copy from a view and one array from
\* another.
Values == {0, 1}

\* the number of elements of an array of a shape
RECURSIVE Prod(_)
Prod(shape) == IF shape = <<>> THEN 1 ELSE Head(shape) * Prod(Tail(shape))

\* the size of the kernel's memory of the variable
NumElements == IF catalog.rank = 0 THEN 1 ELSE Prod(catalog.shape)

KernelMemories == [1..NumElements -> Values]

\* the effect of one lifecycle or stepping method on the wrapper and process;
\* the kernel may have changed its own memory during the native call
Apply(r) ==
    /\ cwd' = r.cwd
    /\ state' = r.state
    /\ lastOk' = IF CompletedLifecycle(r.obs) = {} THEN lastOk
                 ELSE IF "finalize" \in CompletedLifecycle(r.obs) THEN "finalize"
                 ELSE "initialize"
    /\ IF \E i \in DOMAIN r.obs.calls : ~r.obs.calls[i].raw
       THEN mem' \in KernelMemories /\ lastSet' = {}
       ELSE mem' = mem /\ lastSet' = lastSet
    /\ last' = [r.obs EXCEPT !.memChanged = (mem' # mem)]
    /\ timer' = Ledger(timer, r.obs.events)
    /\ Room(timer')
    /\ UNCHANGED <<working_directory, missing, catalog, bufs, returned, ptr,
                   snapshot, timing>>

initialize ==
    /\ alive
    /\ \E status \in NativeStatus, raw \in RawStatus : Apply(initialize_body(status, raw))
    /\ UNCHANGED alive

initialize_mpi ==
    /\ alive
    /\ \E status \in NativeStatus, raw \in RawStatus : Apply(initialize_mpi_body(status, raw))
    /\ UNCHANGED alive

finalize ==
    /\ alive
    /\ \E status \in NativeStatus, raw \in RawStatus : Apply(finalize_body(status, raw))
    /\ UNCHANGED alive

StepMethods == {"update", "update_until", "prepare_time_step", "do_time_step",
                "finalize_time_step", "prepare_solve", "solve", "finalize_solve"}

step ==
    /\ alive
    /\ \E name \in StepMethods, status \in NativeStatus, raw \in RawStatus :
          Apply(step_body(name, status, raw))
    /\ UNCHANGED alive

\* get_component_name(): the length constant is read and the entry point
\* looked up before the invoker is called
get_component_name_body(status, raw) ==
    IF get_constant_int("BMI_LENCOMPONENTNAME") # "none"
    THEN reject("get_component_name", "ValueError", "undefined symbol")
    ELSE IF lib_function("get_component_name") # "none"
    THEN reject("get_component_name", "AttributeError", "undefined symbol")
    ELSE [obs   |-> Observe("get_component_name",
                            execute_function("get_component_name", status, "", raw),
                            cwd),
          cwd   |-> cwd,
          state |-> state]

get_component_name ==
    /\ alive
    /\ \E status \in NativeStatus, raw \in RawStatus :
          Apply(get_component_name_body(status, raw))
    /\ UNCHANGED alive

del ==
    /\ alive
    /\ \E status \in NativeStatus, raw \in RawStatus : Apply(del_body(status, raw))
    /\ alive' = FALSE

----------------------------------------------------------------------------
(* Kernel variables *)

\* the native type strings a kernel reports, as tuples of characters
T_DOUBLE  == <<"D", "O", "U", "B", "L", "E">>
T_FLOAT   == <<"F", "L", "O", "A", "T">>
T_INTEGER == <<"I", "N", "T", "E", "G", "E", "R">>
T_STRING  == <<"S", "T", "R", "I", "N", "G">>
T_LOGICAL == <<"L", "O", "G", "I", "C", "A", "L">>

TypeStrings == {T_DOUBLE, T_FLOAT, T_INTEGER, T_STRING, T_LOGICAL}

\* the kernel's variable: a scalar, or a vector of 1..MaxLen elements
Catalogs ==
    [type : TypeStrings, rank : {0}, shape : {<<>>}]
    \cup [type : TypeStrings, rank : {1}, shape : {<<n>> : n \in 1..MaxLen}]

NoObservation ==
    [op |-> "__init__", exc |-> "none", msg |-> <<>>, logged |-> FALSE,
     calls |-> <<>>, entryCwd |-> cwd, entryState |-> UNINITIALIZED,
     unraisable |-> "none", dest |-> None, memChanged |-> FALSE,
     bufsChanged |-> FALSE, events |-> <<>>]

\* XmiWrapper.__init__
Constructed ==
    /\ state = UNINITIALIZED
    /\ alive = TRUE
    /\ working_directory \in Dirs
    /\ cwd \in Dirs
    /\ missing \in SUBSET DiagSymbols
    /\ bufs = [host |-> None]
    /\ returned = None
    /\ ptr = None
    /\ snapshot = {}
    /\ lastSet = {}
    /\ lastOk = "none"
    /\ timer = NewTimer
    /\ last = NoObservation

Init ==
    /\ Constructed
    /\ timing = FALSE
    /\ catalog = [type |-> T_DOUBLE, rank |-> 0, shape |-> <<>>]
    /\ mem \in KernelMemories

Next == initialize \/ initialize_mpi \/ finalize \/ step \/ del

Spec == Init /\ [][Next]_vars

\* a wrapper constructed with timing on or off, on any library
InitTimed ==
    /\ Constructed
    /\ timing \in BOOLEAN
    /\ working_directory = "sim"
    /\ cwd = "launch"
    /\ catalog = [type |-> T_DOUBLE, rank |-> 0, shape |-> <<>>]
    /\ mem \in KernelMemories

\* the invoker under a lifecycle method, a getter and teardown
NextTimed == initialize \/ finalize \/ get_component_name \/ del

SpecTimed == InitTimed /\ [][NextTimed]_vars

----------------------------------------------------------------------------
(* Type/Shape Catalog: classification of the native type string *)

UpperCase == <<"A", "B", "C", "D", "E", "F", "G", "H", "I", "J", "K", "L", "M",
               "N", "O", "P", "Q", "R", "S", "T", "U", "V", "W", "X", "Y", "Z">>
LowerCase == <<"a", "b", "c", "d", "e", "f", "g", "h", "i", "j", "k", "l", "m",
               "n", "o", "p", "q", "r", "s", "t", "u", "v", "w", "x", "y", "z">>

LowerChar(c) ==
    IF \E i \in DOMAIN UpperCase : UpperCase[i] = c
    THEN LowerCase[CHOOSE i \in DOMAIN UpperCase : UpperCase[i] = c]
    ELSE c

\* str.lower()
lower(t) == [i \in DOMAIN t |-> LowerChar(t[i])]

\* str.startswith(prefix)
startswith(t, prefix) ==
    /\ Len(prefix) <= Len(t)
    /\ SubSeq(t, 1, Len(prefix)) = prefix

\* str.lower() of each native type string
LoweredTypes == [t \in TypeStrings |-> lower(t)]

\* var_type_lower = var_type.lower()
var_type_lower == LoweredTypes[catalog.type]

P_double == <<"d", "o", "u", "b", "l", "e">>
P_float  == <<"f", "l", "o", "a", "t">>
P_int    == <<"i", "n", "t">>
P_string == <<"s", "t", "r", "i", "n", "g">>

\* np.trim_zeros(shape_array): zeros removed from the front and from the back
RECURSIVE TrimFront(_)
TrimFront(shape) ==
    IF shape # <<>> /\ Head(shape) = 0 THEN TrimFront(Tail(shape)) ELSE shape

RECURSIVE TrimBack(_)
TrimBack(shape) ==
    IF shape # <<>> /\ shape[Len(shape)] = 0
    THEN TrimBack(SubSeq(shape, 1, Len(shape) - 1))
    ELSE shape

trim_zeros(shape) == TrimBack(TrimFront(shape))

----------------------------------------------------------------------------
(* Value Marshaler *)

\* the host array the caller holds: the one it allocated itself, or the one
\* get_value allocated for it (the caller keeps one array at a time)
BufferIds == {"host"}

Owned(id) == [kind |-> "owned", id |-> id]

Buffer(dtype, data, c) == [dtype |-> dtype, data |-> data, c_contig |-> c]

\* the elements an array handle gives access to
Contents(h, heap, kernel) ==
    IF h.kind = "alias" THEN kernel
    ELSE IF h.kind = "owned" THEN heap[h.id].data
    ELSE <<>>

\* what the caller sees in the array it holds from get_value, if it holds one
Seen(h, heap, kernel) == IF h = None THEN {} ELSE {Contents(h, heap, kernel)}

\* the sequences of a sequence, one after the other
RECURSIVE Flatten(_)
Flatten(ss) == IF ss = <<>> THEN <<>> ELSE Head(ss) \o Flatten(Tail(ss))

\* one planned call of the invoker
P(fn, detail) == [fn |-> fn, detail |-> detail]

Detail == "for variable v"

\* the invoker called on each entry of plan in turn; call number failAt (if
\* any) returns the nonzero status `code` and ends the method
Invoke(plan, failAt, code, raw) ==
    LET ok(n) == [i \in 1..n |-> Call(plan[i].fn, SUCCESS, FALSE)]
        done(n) == Flatten([i \in 1..n |->
                      execute_function(plan[i].fn, SUCCESS, plan[i].detail, raw).events])
    IN  IF failAt \in 1..Len(plan)
        THEN LET o == execute_function(plan[failAt].fn, code, plan[failAt].detail, raw)
             IN  WithEvents(Outcome(o.exc, o.msg, ok(failAt - 1) \o o.calls, o.logged),
                            done(failAt - 1) \o o.events)
        ELSE WithEvents(Outcome("none", <<>>, ok(Len(plan)), FALSE), done(Len(plan)))

\* the element type get_value_ptr and get_value_ptr_scalar wrap the pointer in
ptr_dtype ==
    IF startswith(var_type_lower, P_double) THEN "float64"
    ELSE IF startswith(var_type_lower, P_float) THEN "float32"
    ELSE IF startswith(var_type_lower, P_int) THEN "int32"
    ELSE "unsupported"

\* get_value_ptr_scalar: its invoker calls, and whether it raises after them
get_value_ptr_scalar ==
    IF ptr_dtype = "unsupported"
    THEN [plan |-> <<P("get_var_type", "")>>, raises |-> TRUE]
    ELSE [plan |-> <<P("get_var_type", ""), P("get_value_ptr", Detail)>>,
          raises |-> FALSE]

\* get_var_shape: get_var_rank, then the native get_var_shape
get_var_shape == <<P("get_var_rank", ""), P("get_var_shape", "")>>

Script(plan, raises, how, dtype) ==
    [plan |-> plan, raises |-> raises, how |-> how, dtype |-> dtype]

\* faulty variant: the scalar branch returns the view itself when no dest is given
get_value_scalar_view(head, dest) ==
    LET sc == get_value_ptr_scalar
    IN  IF sc.raises THEN Script(head \o sc.plan, TRUE, "raise", "")
        ELSE IF dest = None
        THEN Script(head \o sc.plan \o sc.plan, FALSE, "scalar_view",
                    ptr_dtype)
        ELSE Script(head \o sc.plan, FALSE, "scalar_dest", "")

\* get_value, rank 0, not a string
get_value_scalar(head, dest) ==
    LET sc == get_value_ptr_scalar
    IN  IF sc.raises THEN Script(head \o sc.plan, TRUE, "raise", "")
        ELSE IF dest = None
        THEN Script(head \o sc.plan \o sc.plan, FALSE, "scalar_copy",
                    ptr_dtype)
        ELSE Script(head \o sc.plan, FALSE, "scalar_dest", "")

\* get_value, rank >= 1
get_value_array(head, dest) ==
    LET lo == var_type_lower
        h2 == head \o get_var_shape
    IN  IF startswith(lo, P_double)
        THEN Script(h2 \o <<P("get_value", "")>>, FALSE, "array", "float64")
        ELSE IF startswith(lo, P_int)
        THEN Script(h2 \o <<P("get_value", "")>>, FALSE, "array", "int32")
        ELSE IF startswith(lo, P_string)
        THEN IF dest # None
             THEN Script(h2 \o <<P("get_value", "")>>, FALSE, "string", "str")
             ELSE IF catalog.shape[1] = 0
             THEN Script(h2, FALSE, "empty", "str")
             ELSE Script(h2 \o <<P("get_var_nbytes", ""), P("get_value", "")>>,
                         FALSE, "string", "str")
        ELSE Script(h2, TRUE, "raise", "")

\* get_value after the layout check: the calls it makes and what it builds
get_value_script(dest) ==
    LET head == <<P("get_var_rank", ""), P("get_var_type", "")>>
    IN  IF catalog.rank = 0
        THEN IF startswith(var_type_lower, P_string)
             THEN Script(head \o <<P("get_var_nbytes", ""), P("get_value", "")>>,
                         FALSE, "string", "str")
             ELSE get_value_scalar(head, dest)
        ELSE get_value_array(head, dest)

\* the native get_value writes the variable's NumElements elements of type
\* dtype at the address of buf.  A buffer of another element type or with
\* fewer elements receives bytes that are not its own elements' (and the write
\* runs past its end): what it then holds is arbitrary (junk).
NativeWrite(buf, dtype, junk) ==
    IF buf.dtype = dtype /\ Len(buf.data) >= NumElements
    THEN [buf EXCEPT !.data = mem \o SubSeq(buf.data, NumElements + 1, Len(buf.data))]
    ELSE [buf EXCEPT !.data = SubSeq(junk, 1, Len(buf.data))]

\* the native set_value reads NumElements elements at the address of buf;
\* past the end of a shorter buffer it reads whatever is there (junk)
NativeRead(buf, junk) ==
    IF Len(buf.data) >= NumElements
    THEN SubSeq(buf.data, 1, NumElements)
    ELSE buf.data \o SubSeq(junk, Len(buf.data) + 1, NumElements)

\* what a marshaler method did: its observation and the new heap, kernel
\* memory and handles
Effect(obs, heap, kernel, ret, view) ==
    [obs |-> obs, bufs |-> heap, mem |-> kernel, returned |-> ret, ptr |-> view]

NoEffect(obs) == Effect(obs, bufs, mem, returned, ptr)

Raise(name, exc, text, o, dest) ==
    [Observe(name, o, cwd) EXCEPT !.exc = exc, !.msg = <<text>>, !.dest = dest]

\* get_value once the layout check has passed
get_value_marshal(dest, failAt, code, raw, junk) ==
    LET sc  == get_value_script(dest)
        o   == Invoke(sc.plan, failAt, code, raw)
        obs == [Observe("get_value", o, cwd) EXCEPT !.dest = dest]
        fresh(data) == [bufs EXCEPT !.host = Buffer(sc.dtype, data, TRUE)]
        into(b) == [bufs EXCEPT ![dest.id] = b]
    IN  IF o.exc # "none" THEN NoEffect(obs)
        ELSE IF sc.raises
        THEN NoEffect(Raise("get_value", "InputError", "Unsupported value type", o, dest))
        ELSE IF sc.how = "scalar_copy"
        THEN Effect(obs, fresh(SubSeq(mem, 1, 1)), mem, Owned("host"), ptr)
        ELSE IF sc.how = "scalar_view"
        THEN Effect(obs, bufs, mem,
                    [kind |-> "alias", dtype |-> sc.dtype, shape |-> <<1>>], ptr)
        ELSE IF sc.how = "scalar_dest"
        THEN Effect(obs, into([bufs[dest.id] EXCEPT !.data[1] = mem[1]]), mem, dest, ptr)
        ELSE IF sc.how = "array"
        THEN IF dest = None
             THEN Effect(obs, fresh(mem), mem, Owned("host"), ptr)
             ELSE Effect(obs, into(NativeWrite(bufs[dest.id], sc.dtype, junk)), mem,
                         dest, ptr)
        ELSE IF sc.how = "empty"
        THEN Effect(obs, fresh(<<>>), mem, Owned("host"), ptr)
        ELSE \* a string: decoded in place, returned as dest.astype(str)
             IF dest = None
             THEN Effect(obs, fresh(mem), mem, Owned("host"), ptr)
             ELSE Effect(Raise("get_value", "AttributeError", "decode", o, dest),
                         into(NativeWrite(bufs[dest.id], "str", junk)), mem,
                         returned, ptr)

\* faulty variant: get_value without the layout check
get_value_unchecked(dest, failAt, code, raw, junk) ==
    get_value_marshal(dest, failAt, code, raw, junk)

\* get_value(name, dest)
get_value_body(dest, failAt, code, raw, junk) ==
    IF dest # None /\ ~bufs[dest.id].c_contig
    THEN NoEffect([Rejected("get_value", "InputError", "Array should have C layout")
                     EXCEPT !.dest = dest])
    ELSE get_value_marshal(dest, failAt, code, raw, junk)

\* get_value_ptr(name): the calls it makes, and whether it raises after them
get_value_ptr_script ==
    IF catalog.rank = 0
    THEN [plan |-> <<P("get_var_rank", "")>> \o get_value_ptr_scalar.plan,
          raises |-> get_value_ptr_scalar.raises, shape |-> <<1>>]
    ELSE LET head == <<P("get_var_rank", ""), P("get_var_type", "")>> \o get_var_shape
         IN  IF ptr_dtype = "unsupported"
             THEN [plan |-> head, raises |-> TRUE, shape |-> <<>>]
             ELSE [plan |-> Append(head, P("get_value_ptr", Detail)),
                   raises |-> FALSE, shape |-> trim_zeros(catalog.shape)]

get_value_ptr_body(failAt, code, raw) ==
    LET sc  == get_value_ptr_script
        o   == Invoke(sc.plan, failAt, code, raw)
        obs == Observe("get_value_ptr", o, cwd)
    IN  IF o.exc # "none" THEN NoEffect(obs)
        ELSE IF sc.raises
        THEN NoEffect(Raise("get_value_ptr", "InputError", "Unsupported value type",
                            o, None))
        ELSE Effect(obs, bufs, mem, returned,
                    [kind |-> "alias", dtype |-> ptr_dtype,
                     shape |-> sc.shape])

\* the element type set_value requires of the source, by the variable's type
set_value_dtype ==
    IF startswith(var_type_lower, P_double) THEN "float64"
    ELSE IF startswith(var_type_lower, P_int) THEN "int32"
    ELSE "unsupported"

\* faulty variant: set_value that checks its source but never calls the kernel
set_value_no_call(src, failAt, code, raw, junk) ==
    LET want == set_value_dtype
        o   == Invoke(<<P("get_var_type", "")>>, failAt, code, raw)
        obs == [Observe("set_value", o, cwd) EXCEPT !.dest = src]
    IN  IF o.exc # "none" THEN NoEffect(obs)
        ELSE IF want = "unsupported"
        THEN NoEffect(Raise("set_value", "InputError", "Unsupported value type", o, src))
        ELSE IF bufs[src.id].dtype # want
        THEN NoEffect(Raise("set_value", "InputError",
                            "Array should have elements of the variable's type", o, src))
        ELSE NoEffect(obs)

\* set_value once the layout check has passed
set_value_marshal(src, failAt, code, raw, junk) ==
    LET want == set_value_dtype
        typed == <<P("get_var_type", "")>>
        plan == IF want # "unsupported" /\ bufs[src.id].dtype = want
                THEN Append(typed, P("set_value", ""))
                ELSE typed
        o   == Invoke(plan, failAt, code, raw)
        obs == [Observe("set_value", o, cwd) EXCEPT !.dest = src]
    IN  IF Len(plan) = 2
        THEN IF o.exc = "none"
             THEN Effect(obs, bufs, NativeRead(bufs[src.id], junk), returned, ptr)
             ELSE IF failAt = 2
             THEN Effect(obs, bufs, SubSeq(junk, 1, NumElements), returned, ptr)
             ELSE NoEffect(obs)
        ELSE IF o.exc # "none" THEN NoEffect(obs)
        ELSE IF want = "unsupported"
        THEN NoEffect(Raise("set_value", "InputError", "Unsupported value type", o, src))
        ELSE NoEffect(Raise("set_value", "InputError",
                            "Array should have elements of the variable's type", o, src))

\* set_value(name, values)
set_value_body(src, failAt, code, raw, junk) ==
    IF ~bufs[src.id].c_contig
    THEN NoEffect([Rejected("set_value", "InputError", "Array should have C layout")
                     EXCEPT !.dest = src])
    ELSE set_value_marshal(src, failAt, code, raw, junk)

\* the arrays the caller can pass: the live host arrays
Live == {Owned(id) : id \in {i \in BufferIds : bufs[i] # None}}

Junk == [1..MaxLen -> Values]

\* the bytes a call finds or leaves outside the elements it was given: any,
\* where the call reaches them (needed), else of no effect
JunkIf(needed) == IF needed THEN Junk ELSE {[i \in 1..MaxLen |-> 0]}

\* the marshaler is explored with a kernel whose failing calls return FAILURE
\* and whose diagnostic calls deliver their texts; Spec explores the rest
RawOk == [err |-> SUCCESS, name |-> SUCCESS]

\* where the kernel fails a method of the marshaler: nowhere (0), or at any
\* one of its native calls
FailPoints(plan) == 0..Len(plan)

\* get_value reaches bytes that are not the destination's own elements
get_value_overruns(dest) ==
    /\ dest # None
    /\ catalog.rank >= 1
    /\ bufs[dest.id].c_contig
    /\ \/ bufs[dest.id].dtype # get_value_script(dest).dtype
       \/ Len(bufs[dest.id].data) < NumElements

\* set_value reads past the end of the source
set_value_overruns(src) ==
    /\ bufs[src.id].c_contig
    /\ Len(bufs[src.id].data) < NumElements

\* the effect of a marshaler method on the heap, the kernel and the handles
Commit(r) ==
    /\ last' = [r.obs EXCEPT !.memChanged = (r.mem # mem),
                             !.bufsChanged = (r.bufs # bufs)]
    /\ bufs' = r.bufs
    /\ mem' = r.mem
    /\ returned' = r.returned
    /\ ptr' = r.ptr
    /\ timer' = Ledger(timer, r.obs.events)
    /\ Room(timer')
    /\ UNCHANGED <<state, alive, working_directory, cwd, missing, catalog, lastOk,
                   timing>>

get_value ==
    /\ alive
    /\ \E dest \in {None} \cup Live :
       \E failAt \in FailPoints(get_value_script(dest).plan),
          junk \in JunkIf(get_value_overruns(dest)) :
          LET r == get_value_body(dest, failAt, FAILURE, RawOk, junk)
          IN  /\ Commit(r)
              /\ snapshot' = Seen(r.returned, r.bufs, r.mem)
              /\ lastSet' = lastSet

get_value_ptr ==
    /\ alive
    /\ \E failAt \in FailPoints(get_value_ptr_script.plan) :
          /\ Commit(get_value_ptr_body(failAt, FAILURE, RawOk))
          /\ UNCHANGED <<snapshot, lastSet>>

set_value ==
    /\ alive
    /\ \E src \in Live :
       \E failAt \in FailPoints(<<1, 2>>) :
       \E junk \in JunkIf(set_value_overruns(src) \/ failAt = 2) :
          LET r == set_value_body(src, failAt, FAILURE, RawOk, junk)
          IN  /\ Commit(r)
              /\ snapshot' = snapshot
              /\ lastSet' =
                    IF r.obs.exc = "none"
                    THEN IF Len(bufs[src.id].data) = NumElements
                         THEN {bufs[src.id].data} ELSE {}
                    ELSE IF \E i \in DOMAIN r.obs.calls : r.obs.calls[i].fn = "set_value"
                    THEN {}
                    ELSE lastSet

\* what the caller does with its own arrays, between calls of the wrapper
ByCaller(name, h) == [Rejected(name, "none", "") EXCEPT !.msg = <<>>, !.dest = h]

\* the caller creates an array of its own: np.zeros(n, dtype), or a strided
\* view of one (not C-contiguous)
caller_allocate ==
    /\ alive
    /\ \E dtype \in {"float64", "int32"}, n \in 1..MaxLen, c \in BOOLEAN :
          bufs' = [bufs EXCEPT !.host = Buffer(dtype, [i \in 1..n |-> 0], c)]
    /\ returned' = None
    /\ snapshot' = {}
    /\ last' = [ByCaller("allocate", Owned("host")) EXCEPT !.bufsChanged = TRUE]
    /\ UNCHANGED <<state, alive, working_directory, cwd, missing, catalog, mem,
                   ptr, lastSet, lastOk, timing, timer>>

\* the caller assigns an element of one of its own arrays
write_owned ==
    /\ alive
    /\ \E h \in Live :
       \E i \in DOMAIN bufs[h.id].data, v \in Values :
          /\ v # bufs[h.id].data[i]
          /\ bufs' = [bufs EXCEPT ![h.id].data[i] = v]
          /\ last' = [ByCaller("write_owned", h) EXCEPT !.bufsChanged = TRUE]
    /\ snapshot' = Seen(returned, bufs', mem)
    /\ UNCHANGED <<state, alive, working_directory, cwd, missing, catalog, mem,
                   returned, ptr, lastSet, lastOk, timing, timer>>

\* the caller assigns an element of the view get_value_ptr gave it: the
\* element is the kernel's
write_alias ==
    /\ alive
    /\ ptr # None
    /\ \E i \in 1..NumElements, v \in Values :
          /\ v # mem[i]
          /\ mem' = [mem EXCEPT ![i] = v]
    /\ last' = [ByCaller("write_alias", ptr) EXCEPT !.memChanged = TRUE]
    /\ lastSet' = {}
    /\ UNCHANGED <<state, alive, working_directory, cwd, missing, catalog, bufs,
                   returned, ptr, snapshot, lastOk, timing, timer>>

\* a wrapper on a library with all its symbols, over a kernel with one variable
InitValue ==
    /\ Constructed
    /\ timing = FALSE
    /\ missing = {}
    /\ working_directory = "sim"
    /\ cwd = "launch"
    /\ catalog \in Catalogs
    /\ mem \in KernelMemories

\* the kernel's variable of rank >= 1 with any dimensions, zero ones included
ShapeCatalogs ==
    UNION {[type : TypeStrings, rank : {r}, shape : [1..r -> 0..MaxLen]] :
              r \in 1..MaxRank}

InitShape ==
    /\ Constructed
    /\ timing = FALSE
    /\ missing = {}
    /\ working_directory = "sim"
    /\ cwd = "launch"
    /\ catalog \in ShapeCatalogs
    /\ mem = [i \in 1..NumElements |-> 0]

\* views of variables of every shape
NextShape == get_value_ptr

SpecShape == InitShape /\ [][NextShape]_vars

\* reading: copies and views
NextValue ==
    \/ get_value \/ get_value_ptr
    \/ caller_allocate \/ write_owned \/ write_alias

SpecValue == InitValue /\ [][NextValue]_vars

\* writing and reading back
NextSet ==
    \/ set_value \/ get_value
    \/ caller_allocate \/ write_owned

SpecSet == InitValue /\ [][NextSet]_vars

----------------------------------------------------------------------------
(* Properties of the lifecycle, the invoker and the directory scope *)

Range(f) == {f[i] : i \in DOMAIN f}

\* the exception the body of the last call raised (for __del__: the one the
\* interpreter reported instead of raising)
Raised == IF last.op = "__del__" THEN last.unraisable ELSE last.exc

\* the native calls of the last public call that went through the invoker
Invoked == {i \in DOMAIN last.calls : ~last.calls[i].raw}

FailedInvocations == {i \in Invoked : last.calls[i].status # SUCCESS}

IllegalLifecycleCall ==
    \/ last.op \in {"initialize", "initialize_mpi"} /\ last.entryState = INITIALIZED
    \/ last.op = "finalize" /\ last.entryState = UNINITIALIZED

\* C1: initialize / initialize_mpi while Initialized, and finalize while
\* Uninitialized, raise InputError (the StateError of the spec), make no native
\* call and leave the lifecycle state as it was.
C1_IllegalLifecycleRejected ==
    IllegalLifecycleCall =>
        /\ last.exc = "InputError"
        /\ last.calls = <<>>
        /\ state = last.entryState

C1_Witness ==
    /\ last.op = "initialize_mpi"
    /\ last.entryState = INITIALIZED
    /\ last.exc = "InputError"

\* C2: the state changes only when the native initialize / finalize call
\* returned 0 (Uninitialized -> Initialized by an initialize, Initialized ->
\* Uninitialized by a finalize), a native failure leaves it as it was, and it
\* is Initialized exactly when the last lifecycle call that succeeded was an
\* initialize.
C2_StateAlternates ==
    /\ state = INITIALIZED <=> lastOk = "initialize"
    /\ state # last.entryState =>
          /\ FailedInvocations = {}
          /\ IF state = INITIALIZED
             THEN CompletedLifecycle(last) \in {{"initialize"}, {"initialize_mpi"}}
             ELSE CompletedLifecycle(last) = {"finalize"}
    /\ FailedInvocations # {} => state = last.entryState

C2_Witness ==
    /\ last.op = "finalize"
    /\ FailedInvocations # {}
    /\ state = INITIALIZED
    /\ lastOk = "initialize"

PathSensitive ==
    {"initialize", "initialize_mpi", "finalize", "__del__"} \cup StepMethods

\* C3: a path-sensitive operation runs its native calls with the process in
\* the configured simulation directory, and when it returns or raises the
\* process is back in the directory it was in when the operation was entered.
C3_DirectoryScope ==
    last.op \in PathSensitive =>
        /\ \A i \in DOMAIN last.calls : last.calls[i].cwd = working_directory
        /\ cwd = last.entryCwd

C3_Witness ==
    /\ last.op = "solve"
    /\ last.exc = "XMIError"
    /\ last.calls # <<>>
    /\ last.entryCwd # working_directory
    /\ cwd = last.entryCwd

\* C4: a nonzero status of a native entry point called through the invoker
\* raises XMIError (the NativeCallError of the spec) whose message contains the
\* entry point's name, and, when the diagnostic symbols exist (and the two
\* diagnostic calls delivered their texts), the component name and the native
\* error text.
C4_NonzeroRaisesNativeCallError ==
    \A i \in FailedInvocations :
        /\ Raised = "XMIError"
        /\ last.calls[i].fn \in Range(last.msg)
        /\ (/\ missing = {}
            /\ \A j \in DOMAIN last.calls : last.calls[j].raw => last.calls[j].status = SUCCESS)
           => {ComponentName, ErrorText} \subseteq Range(last.msg)

\* C5: when a native call returns nonzero and a step of the diagnostic
\* retrieval fails (a length constant or a diagnostic entry point is absent),
\* the caller still receives XMIError naming the original entry point.
C5_RetrievalFailureNeverMasks ==
    \A i \in FailedInvocations :
        missing # {} =>
            /\ Raised = "XMIError"
            /\ last.calls[i].fn \in Range(last.msg)

----------------------------------------------------------------------------
(* Properties of the value marshaler *)

ScalarNumeric == catalog.rank = 0 /\ ptr_dtype # "unsupported"

NonScalarNumeric == catalog.rank >= 1 /\ ptr_dtype # "unsupported"

\* C7: for a scalar numeric variable, what get_value returned (a new array,
\* or the destination it was given) keeps the contents it was returned with
\* whatever is later written to the kernel's memory through a view from
\* get_value_ptr.
C7_ScalarCopyIsolated ==
    (ScalarNumeric /\ returned # None) =>
        snapshot = {Contents(returned, bufs, mem)}

C7_Witness ==
    /\ ScalarNumeric
    /\ returned # None
    /\ last.op = "write_alias"
    /\ last.memChanged
    /\ snapshot # {mem}
    /\ snapshot = {Contents(returned, bufs, mem)}

\* C8: for a numeric variable of rank >= 1, get_value returns an array equal,
\* element by element, to what the view of get_value_ptr shows at that moment
\* (so a write through the view shows in the next get_value), and a write to
\* an array get_value returned changes nothing in the kernel.
C8_ArrayCopyEqualsView ==
    /\ (/\ NonScalarNumeric
        /\ last.op = "get_value"
        /\ last.dest = None
        /\ FailedInvocations = {})
       => /\ last.exc = "none"
          /\ returned = Owned("host")
          /\ bufs.host.data = mem
    /\ (NonScalarNumeric /\ last.op = "write_owned") => ~last.memChanged

\* C9: after set_value(v, X) with X of the variable's element type and shape
\* the kernel holds X until the kernel is written again, whatever the caller
\* does to X; a get_value(v) in that time returns X.
C9_RoundTrip ==
    /\ lastSet # {} => lastSet = {mem}
    /\ (/\ last.op = "get_value"
        /\ last.exc = "none"
        /\ last.dest = None
        /\ lastSet # {})
       => lastSet = {Contents(returned, bufs, mem)}

C9_Witness ==
    /\ last.op = "get_value"
    /\ last.exc = "none"
    /\ last.dest = None
    /\ \E X \in lastSet : 1 \in Range(X)
    /\ lastSet = {Contents(returned, bufs, mem)}

\* C10: get_value with a destination, and set_value with a source, that is
\* not C-contiguous raise InputError (the LayoutError of the spec) without any
\* native call, and change neither the array nor the kernel's memory.
C10_LayoutRejectedFirst ==
    (/\ last.op \in {"get_value", "set_value"}
     /\ last.dest # None
     /\ ~bufs[last.dest.id].c_contig)
    => /\ last.exc = "InputError"
       /\ last.calls = <<>>
       /\ ~last.memChanged
       /\ ~last.bufsChanged

C10_Witness ==
    /\ last.op = "get_value"
    /\ last.dest # None
    /\ ~bufs[last.dest.id].c_contig
    /\ last.exc = "InputError"
    /\ last.calls = <<>>

\* the native get_value calls the last public call made through the invoker
GetValueCalls == {i \in Invoked : last.calls[i].fn = "get_value"}

\* C11: for a Double variable of rank >= 1, the array get_value hands to the
\* native get_value and returns has the queried shape and element type
\* float64, whether get_value allocated it or was given it, and exactly one
\* native get_value call fills it.
C11_DoubleBufferShapedTyped ==
    (/\ catalog.rank >= 1
     /\ startswith(var_type_lower, P_double)
     /\ last.op = "get_value"
     /\ last.exc = "none")
    => /\ returned # None
       /\ bufs[returned.id].dtype = "float64"
       /\ Len(bufs[returned.id].data) = NumElements
       /\ Cardinality(GetValueCalls) = 1

\* the type tag of the variable: the prefixes the marshaler tells apart
SupportedType ==
    \/ startswith(var_type_lower, P_double)
    \/ startswith(var_type_lower, P_float)
    \/ startswith(var_type_lower, P_int)
    \/ startswith(var_type_lower, P_string)

RejectedAsUnsupported ==
    /\ last.exc = "InputError"
    /\ last.msg = <<"Unsupported value type">>

\* C12: a get_value whose catalog queries succeeded raises InputError
\* "Unsupported value type" (the UnsupportedTypeError of the spec) exactly
\* when the variable's type is none of Double, Float, Int32, FixedString, at
\* rank 0 and at rank >= 1, and then the native get_value was not called.
C12_UnsupportedExactly ==
    (/\ last.op = "get_value"
     /\ last.calls # <<>>
     /\ FailedInvocations = {})
    => /\ RejectedAsUnsupported <=> ~SupportedType
       /\ RejectedAsUnsupported => GetValueCalls = {}

----------------------------------------------------------------------------
(* Properties of the timer ledger and of the failure path *)

EventsOf(kind) == {k \in DOMAIN last.events : last.events[k].kind = kind}

\* the timer events that bracket the native call at position k of the events
Bracketed(k) ==
    LET fn == last.events[k].fn
    IN  /\ k > 1
        /\ last.events[k - 1] = Ev("start", fn)
        /\ \E j \in EventsOf("stop") :
              /\ j > k
              /\ last.events[j] = Ev("stop", fn)
              /\ \A m \in (k + 1)..(j - 1) : last.events[m].kind = "raw"

\* C13: with timing on, each call through the invoker has one timer start
\* under the entry point's name before it and one stop after it, also when the
\* call fails; the raw diagnostic calls start and stop no timer; after every
\* operation no timer runs and each entry point has as many starts as stops.
C13_TimerBrackets ==
    timing =>
        /\ \A k \in EventsOf("call") : Bracketed(k)
        /\ Cardinality(EventsOf("start")) = Cardinality(EventsOf("call"))
        /\ Cardinality(EventsOf("stop")) = Cardinality(EventsOf("call"))
        /\ Cardinality(EventsOf("call")) = Cardinality(Invoked)
        /\ timer.running = {}
        /\ timer.starts = timer.stops

C13_Witness ==
    /\ timing
    /\ last.exc = "XMIError"
    /\ Cardinality(EventsOf("raw")) = 2
    /\ timer.running = {}
    /\ BagCardinality(timer.stops) = MaxSamples
    /\ BagCardinality(timer.starts) = MaxSamples

\* the raw diagnostic calls of the last public call, in order
RawCalls == SelectSeq(last.calls, LAMBDA c : c.raw)

RawNames == [i \in DOMAIN RawCalls |-> RawCalls[i].fn]

\* C14: a failing invocation is followed by at most the two raw calls
\* get_last_bmi_error and get_component_name, once each and in that order, and
\* by no call through the invoker; one exception is raised whatever the raw
\* calls return, also when the failing entry point is get_component_name.
C14_FailurePathFlat ==
    /\ Cardinality(FailedInvocations) <= 1
    /\ \A i \in FailedInvocations :
          /\ \A j \in DOMAIN last.calls : j > i => last.calls[j].raw
          /\ Raised \in {"XMIError", "ValueError"}
          /\ missing = {} => Raised = "XMIError" /\ Len(RawCalls) = 2
    /\ RawCalls # <<>> => FailedInvocations # {}
    /\ RawNames \in {<<>>, <<"get_last_bmi_error">>,
                     <<"get_last_bmi_error", "get_component_name">>}

C14_Witness ==
    /\ last.op = "get_component_name"
    /\ FailedInvocations # {}
    /\ last.exc = "XMIError"
    /\ Len(RawCalls) = 2
    /\ \A i \in DOMAIN RawCalls : RawCalls[i].status # SUCCESS

----------------------------------------------------------------------------
(* Properties of the shape of a view *)

\* the zero dimensions at the end of a shape
TrailingZeros(shape) ==
    {i \in DOMAIN shape : \A j \in i..Len(shape) : shape[j] = 0}

\* C15: the view get_value_ptr returns for a numeric variable of rank >= 1
\* has the catalog's shape without its trailing zero dimensions: leading and
\* interior dimensions, zero ones included, are kept in order, and the view
\* has rank minus the number of trailing zero dimensions.
C15_OnlyTrailingZerosTrimmed ==
    (/\ NonScalarNumeric
     /\ last.op = "get_value_ptr"
     /\ last.exc = "none")
    => /\ ptr # None
       /\ Len(ptr.shape) = catalog.rank - Cardinality(TrailingZeros(catalog.shape))
       /\ ptr.shape = SubSeq(catalog.shape, 1, Len(ptr.shape))

====
